---- MODULE Spec2Model ----
(***************************************************************************)
(* A model of src/quadtree.js: the Node class (insert, divide,             *)
(* findInsertNode, findOverlappingNodes, retrieve, clear) and the QUAD     *)
(* facade that owns the root Node.                                         *)
(*                                                                         *)
(* Numbers.  The JavaScript code halves widths and heights (w / 2), which  *)
(* is exact in binary floating point.  The model keeps every Node          *)
(* coordinate as an integer count of 1/Unit, Unit a power of two large     *)
(* enough that no halving down to the deepest level leaves a remainder.    *)
(* Item coordinates are in caller units and are multiplied by Unit where   *)
(* the code compares them with Node coordinates.                           *)
(***************************************************************************)
EXTENDS Integers, Sequences, FiniteSets

VARIABLES
    root,      \* QUAD.root: the tree of Node records
    given,     \* the args object as the caller passed it to the constructor
    inserted,  \* every item handed to root.insert since construction / the last clear
    lastOp,    \* the facade method that ran last
    selector,  \* the selector of the retrieve that ran last (FullBox when another method did)
    visited,   \* the items that retrieve handed to its callback, in call order
    before     \* QUAD.root as it was when the last method was entered

vars == <<root, given, inserted, lastOp, selector, visited, before>>

----------------------------------------------------------------------------
\* Constants of the program.

TOP_LEFT == 0
TOP_RIGHT == 1
BOTTOM_LEFT == 2
BOTTOM_RIGHT == 3
PARENT == 4

DefaultMaxChildren == 2
DefaultMaxDepth == 4

\* Node coordinates are counted in 1/Unit.
Unit == 2 ^ DefaultMaxDepth

\* x / 2 on a Node coordinate.
Half(v) == v \div 2

----------------------------------------------------------------------------
\* Bounds and inputs of the model.

\* No more than MaxItems items are in the tree at a time.
MaxItems == 3

Rect(x, y, w, h) == [x |-> x, y |-> y, w |-> w, h |-> h]

A1 == Rect(0, 0, 10, 10)
A2 == Rect(60, 60, 10, 10)
A3 == Rect(5, 5, 5, 5)
StraddleB == Rect(45, 10, 20, 5)
StraddleH == Rect(10, 45, 5, 20)
TouchTL == Rect(40, 40, 10, 10)
OnMidTR == Rect(50, 10, 10, 10)
InBL == Rect(10, 60, 10, 10)
Dot == Rect(1, 1, 0, 0)

\* The items callers insert: all have non-negative w and h.
Items == {A1, A2, A3, StraddleB, StraddleH, TouchTL, OnMidTR, InBL, Dot}

FullBox == Rect(0, 0, 100, 100)
QueryA == Rect(0, 0, 20, 20)

\* The selectors callers retrieve with, besides the rectangles of the items
\* they inserted.
Selectors ==
    {FullBox, QueryA, Rect(60, 60, 30, 30), Rect(0, 0, 50, 50),
     Rect(10, 10, 5, 5), Rect(70, 0, 5, 60), Rect(30, 30, 0, 0)}

\* The lists QUAD.insert is called with.
ArrayItems == {A1, A2, A3}
Arrays == {<<>>} \cup {<<a>> : a \in ArrayItems}
              \cup {<<a, b>> : a \in ArrayItems, b \in ArrayItems}

ScenarioA == [x |-> 0, y |-> 0, w |-> 100, h |-> 100, maxChildren |-> 2, maxDepth |-> 4]

\* The args objects the constructor is called with; maxChildren and maxDepth
\* are optional fields.
Args ==
    { ScenarioA,
      [x |-> 0, y |-> 0, w |-> 100, h |-> 100, maxChildren |-> 1, maxDepth |-> 0],
      [x |-> 0, y |-> 0, w |-> 100, h |-> 100, maxDepth |-> 1],
      [x |-> 0, y |-> 0, w |-> 100, h |-> 100, maxChildren |-> 1, maxDepth |-> 2] }

----------------------------------------------------------------------------
\* class Node

Node(x, y, w, h, depth, maxChildren, maxDepth) ==
    [items |-> <<>>, nodes |-> <<>>, maxChildren |-> maxChildren,
     maxDepth |-> maxDepth, x |-> x, y |-> y, w |-> w, h |-> h, depth |-> depth]

RECURSIVE retrieve(_, _)
RECURSIVE retrieveEach(_, _, _)
RECURSIVE insert(_, _)
RECURSIVE insertEach(_, _)
RECURSIVE divide(_)
RECURSIVE clear(_)

\* findInsertNode with > for >= in the right and bottom tests.
findInsertNode_strictNear(n, item) ==
    IF (item.x + item.w) * Unit < n.x + Half(n.w)
    THEN IF (item.y + item.h) * Unit < n.y + Half(n.h) THEN TOP_LEFT
         ELSE IF item.y * Unit > n.y + Half(n.h) THEN BOTTOM_LEFT
         ELSE PARENT
    ELSE IF item.x * Unit > n.x + Half(n.w)
    THEN IF (item.y + item.h) * Unit < n.y + Half(n.h) THEN TOP_RIGHT
         ELSE IF item.y * Unit > n.y + Half(n.h) THEN BOTTOM_RIGHT
         ELSE PARENT
    ELSE PARENT

\* findInsertNode without the PARENT answer for an item across the horizontal midline.
findInsertNode_noStraddleY(n, item) ==
    IF (item.x + item.w) * Unit < n.x + Half(n.w)
    THEN IF (item.y + item.h) * Unit < n.y + Half(n.h) THEN TOP_LEFT ELSE BOTTOM_LEFT
    ELSE IF item.x * Unit >= n.x + Half(n.w)
    THEN IF (item.y + item.h) * Unit < n.y + Half(n.h) THEN TOP_RIGHT ELSE BOTTOM_RIGHT
    ELSE PARENT

\* Find a node the item should be inserted in.
findInsertNode(n, item) ==
    IF (item.x + item.w) * Unit < n.x + Half(n.w)
    THEN IF (item.y + item.h) * Unit < n.y + Half(n.h) THEN TOP_LEFT
         ELSE IF item.y * Unit >= n.y + Half(n.h) THEN BOTTOM_LEFT
         ELSE PARENT
    ELSE IF item.x * Unit >= n.x + Half(n.w)
    THEN IF (item.y + item.h) * Unit < n.y + Half(n.h) THEN TOP_RIGHT
         ELSE IF item.y * Unit >= n.y + Half(n.h) THEN BOTTOM_RIGHT
         ELSE PARENT
    ELSE PARENT

\* findOverlappingNodes with > for >= on the far edges.
findOverlappingNodes_strictFar(n, item) ==
    (IF item.x * Unit < n.x + Half(n.w)
     THEN (IF item.y * Unit < n.y + Half(n.h) THEN <<TOP_LEFT>> ELSE <<>>)
          \o (IF (item.y + item.h) * Unit > n.y + Half(n.h) THEN <<BOTTOM_LEFT>> ELSE <<>>)
     ELSE <<>>)
    \o
    (IF (item.x + item.w) * Unit > n.x + Half(n.w)
     THEN (IF item.y * Unit < n.y + Half(n.h) THEN <<TOP_RIGHT>> ELSE <<>>)
          \o (IF (item.y + item.h) * Unit > n.y + Half(n.h) THEN <<BOTTOM_RIGHT>> ELSE <<>>)
     ELSE <<>>)

\* findOverlappingNodes whose right test compares with this.x, not this.x + this.w / 2.
findOverlappingNodes_rightFromX(n, item) ==
    (IF item.x * Unit < n.x + Half(n.w)
     THEN (IF item.y * Unit < n.y + Half(n.h) THEN <<TOP_LEFT>> ELSE <<>>)
          \o (IF (item.y + item.h) * Unit >= n.y + Half(n.h) THEN <<BOTTOM_LEFT>> ELSE <<>>)
     ELSE <<>>)
    \o
    (IF (item.x + item.w) * Unit >= n.x
     THEN (IF item.y * Unit < n.y + Half(n.h) THEN <<TOP_RIGHT>> ELSE <<>>)
          \o (IF (item.y + item.h) * Unit >= n.y + Half(n.h) THEN <<BOTTOM_RIGHT>> ELSE <<>>)
     ELSE <<>>)

\* The regions the item overlaps with, in the order the callback is called.
findOverlappingNodes(n, item) ==
    (IF item.x * Unit < n.x + Half(n.w)
     THEN (IF item.y * Unit < n.y + Half(n.h) THEN <<TOP_LEFT>> ELSE <<>>)
          \o (IF (item.y + item.h) * Unit >= n.y + Half(n.h) THEN <<BOTTOM_LEFT>> ELSE <<>>)
     ELSE <<>>)
    \o
    (IF (item.x + item.w) * Unit >= n.x + Half(n.w)
     THEN (IF item.y * Unit < n.y + Half(n.h) THEN <<TOP_RIGHT>> ELSE <<>>)
          \o (IF (item.y + item.h) * Unit >= n.y + Half(n.h) THEN <<BOTTOM_RIGHT>> ELSE <<>>)
     ELSE <<>>)

\* The callback of retrieve's findOverlappingNodes call, run for each dir in turn.
retrieveEach(n, dirs, item) ==
    IF dirs = <<>> THEN <<>>
    ELSE retrieve(n.nodes[Head(dirs) + 1], item) \o retrieveEach(n, Tail(dirs), item)

\* retrieve that walks the subnodes before it hands over the node's own items.
retrieve_childrenFirst(n, item) ==
    (IF Len(n.nodes) # 0
     THEN retrieveEach(n, findOverlappingNodes(n, item), item)
     ELSE <<>>) \o n.items

\* retrieve that hands over the items of leaves only.
retrieve_leafOnly(n, item) ==
    IF Len(n.nodes) # 0
    THEN retrieveEach(n, findOverlappingNodes(n, item), item)
    ELSE n.items

\* The sequence of callback(el) calls retrieve makes.
retrieve(n, item) ==
    n.items \o (IF Len(n.nodes) # 0
                THEN retrieveEach(n, findOverlappingNodes(n, item), item)
                ELSE <<>>)

\* insert that divides a leaf only when it holds more than maxChildren + 1 items.
insert_capacityOffByOne(n, item) ==
    IF Len(n.nodes) # 0
    THEN LET i == findInsertNode(n, item) IN
         IF i = PARENT
         THEN [n EXCEPT !.items = Append(@, item)]
         ELSE [n EXCEPT !.nodes[i + 1] = insert(@, item)]
    ELSE LET m == [n EXCEPT !.items = Append(@, item)] IN
         IF Len(m.items) > m.maxChildren + 1 /\ m.depth < m.maxDepth
         THEN divide(m)
         ELSE m

\* insert that divides at depth <= maxDepth.
insert_depthInclusive(n, item) ==
    IF Len(n.nodes) # 0
    THEN LET i == findInsertNode(n, item) IN
         IF i = PARENT
         THEN [n EXCEPT !.items = Append(@, item)]
         ELSE [n EXCEPT !.nodes[i + 1] = insert(@, item)]
    ELSE LET m == [n EXCEPT !.items = Append(@, item)] IN
         IF Len(m.items) > m.maxChildren /\ m.depth <= m.maxDepth
         THEN divide(m)
         ELSE m

\* Adds a new item to the node.
insert(n, item) ==
    IF Len(n.nodes) # 0
    THEN LET i == findInsertNode(n, item) IN
         IF i = PARENT
         THEN [n EXCEPT !.items = Append(@, item)]
         ELSE [n EXCEPT !.nodes[i + 1] = insert(@, item)]
    ELSE LET m == [n EXCEPT !.items = Append(@, item)] IN
         IF Len(m.items) > m.maxChildren /\ m.depth < m.maxDepth
         THEN divide(m)
         ELSE m

\* els.forEach(el => this.insert(el))
insertEach(n, els) ==
    IF els = <<>> THEN n ELSE insertEach(insert(n, Head(els)), Tail(els))

\* divide whose top-right subnode is placed at y + height.
divide_wrongTopRight(n) ==
    LET childrenDepth == n.depth + 1
        width == Half(n.w)
        height == Half(n.h)
        nodes == n.nodes \o
                 << Node(n.x, n.y, width, height, childrenDepth, n.maxChildren, n.maxDepth),
                    Node(n.x + width, n.y + height, width, height, childrenDepth,
                         n.maxChildren, n.maxDepth),
                    Node(n.x, n.y + height, width, height, childrenDepth, n.maxChildren, n.maxDepth),
                    Node(n.x + width, n.y + height, width, height, childrenDepth,
                         n.maxChildren, n.maxDepth) >>
        oldChildren == n.items
    IN insertEach([n EXCEPT !.nodes = nodes, !.items = <<>>], oldChildren)

RECURSIVE pushEach(_, _)
\* Each of els pushed onto the items of n or of the subnode findInsertNode names.
pushEach(n, els) ==
    IF els = <<>> THEN n
    ELSE LET i == findInsertNode(n, Head(els)) IN
         pushEach(IF i = PARENT
                  THEN [n EXCEPT !.items = Append(@, Head(els))]
                  ELSE [n EXCEPT !.nodes[i + 1].items = Append(@, Head(els))],
                  Tail(els))

\* divide that pushes the items onto the subnodes' lists instead of inserting them.
divide_pushDirect(n) ==
    LET childrenDepth == n.depth + 1
        width == Half(n.w)
        height == Half(n.h)
        nodes == n.nodes \o
                 << Node(n.x, n.y, width, height, childrenDepth, n.maxChildren, n.maxDepth),
                    Node(n.x + width, n.y, width, height, childrenDepth, n.maxChildren, n.maxDepth),
                    Node(n.x, n.y + height, width, height, childrenDepth, n.maxChildren, n.maxDepth),
                    Node(n.x + width, n.y + height, width, height, childrenDepth,
                         n.maxChildren, n.maxDepth) >>
        oldChildren == n.items
    IN pushEach([n EXCEPT !.nodes = nodes, !.items = <<>>], oldChildren)

\* divide that creates the subnodes and leaves the items where they are.
divide_noReinsert(n) ==
    LET childrenDepth == n.depth + 1
        width == Half(n.w)
        height == Half(n.h)
        nodes == n.nodes \o
                 << Node(n.x, n.y, width, height, childrenDepth, n.maxChildren, n.maxDepth),
                    Node(n.x + width, n.y, width, height, childrenDepth, n.maxChildren, n.maxDepth),
                    Node(n.x, n.y + height, width, height, childrenDepth, n.maxChildren, n.maxDepth),
                    Node(n.x + width, n.y + height, width, height, childrenDepth,
                         n.maxChildren, n.maxDepth) >>
    IN [n EXCEPT !.nodes = nodes]

\* divide that empties this.items after the reinsertion instead of before it.
divide_itemsClearedLast(n) ==
    LET childrenDepth == n.depth + 1
        width == Half(n.w)
        height == Half(n.h)
        nodes == n.nodes \o
                 << Node(n.x, n.y, width, height, childrenDepth, n.maxChildren, n.maxDepth),
                    Node(n.x + width, n.y, width, height, childrenDepth, n.maxChildren, n.maxDepth),
                    Node(n.x, n.y + height, width, height, childrenDepth, n.maxChildren, n.maxDepth),
                    Node(n.x + width, n.y + height, width, height, childrenDepth,
                         n.maxChildren, n.maxDepth) >>
        oldChildren == n.items
    IN [insertEach([n EXCEPT !.nodes = nodes], oldChildren) EXCEPT !.items = <<>>]

\* Divides the node into four subnodes, then reinserts all its items.
divide(n) ==
    LET childrenDepth == n.depth + 1
        width == Half(n.w)
        height == Half(n.h)
        nodes == n.nodes \o
                 << Node(n.x, n.y, width, height, childrenDepth, n.maxChildren, n.maxDepth),
                    Node(n.x + width, n.y, width, height, childrenDepth, n.maxChildren, n.maxDepth),
                    Node(n.x, n.y + height, width, height, childrenDepth, n.maxChildren, n.maxDepth),
                    Node(n.x + width, n.y + height, width, height, childrenDepth,
                         n.maxChildren, n.maxDepth) >>
        oldChildren == n.items
    IN insertEach([n EXCEPT !.nodes = nodes, !.items = <<>>], oldChildren)

\* clear without this.items.length = 0.
clear_nodesOnly(n) ==
    LET cleared == [i \in 1..Len(n.nodes) |-> clear(n.nodes[i])] IN
    [n EXCEPT !.nodes = SubSeq(cleared, 1, 0)]

\* clear that empties the items of every node and keeps the subnodes.
clear_itemsOnly(n) ==
    LET cleared == [i \in 1..Len(n.nodes) |-> clear(n.nodes[i])] IN
    [n EXCEPT !.items = SubSeq(@, 1, 0), !.nodes = cleared]

\* Clears the node and all its subnodes.
clear(n) ==
    LET cleared == [i \in 1..Len(n.nodes) |-> clear(n.nodes[i])] IN
    [n EXCEPT !.items = SubSeq(@, 1, 0), !.nodes = SubSeq(cleared, 1, 0)]

----------------------------------------------------------------------------
\* class QUAD

\* v || d on an optional numeric field of args.
OrDefault(args, field, d) ==
    IF field \in DOMAIN args /\ args[field] # 0 THEN args[field] ELSE d

\* new QUAD(args): the root Node.
QUAD(args) ==
    Node(args.x * Unit, args.y * Unit, args.w * Unit, args.h * Unit, 0,
         OrDefault(args, "maxChildren", DefaultMaxChildren),
         OrDefault(args, "maxDepth", DefaultMaxDepth))

Init ==
    /\ given \in Args
    /\ root = QUAD(given)
    /\ inserted = <<>>
    /\ lastOp = "new"
    /\ selector = FullBox
    /\ visited = <<>>
    /\ before = root

RECURSIVE Compact(_)
\* The subtree of n with every node whose subnodes hold nothing merged back
\* into a leaf.
Compact(n) ==
    IF Len(n.nodes) = 0 THEN n
    ELSE LET cs == [i \in 1..Len(n.nodes) |-> Compact(n.nodes[i])] IN
         IF \A i \in DOMAIN cs : cs[i].items = <<>> /\ cs[i].nodes = <<>>
         THEN [n EXCEPT !.nodes = <<>>]
         ELSE [n EXCEPT !.nodes = cs]

\* tree.insert(item) that afterwards merges back the nodes whose subnodes hold nothing.
Insert_compacting ==
    \E item \in Items :
        /\ Len(inserted) < MaxItems
        /\ root' = Compact(insert(root, item))
        /\ inserted' = Append(inserted, item)
        /\ lastOp' = "insert"
        /\ selector' = FullBox
        /\ visited' = <<>>
        /\ before' = root
        /\ UNCHANGED given

\* tree.insert(item), item a single item.
Insert ==
    \E item \in Items :
        /\ Len(inserted) < MaxItems
        /\ root' = insert(root, item)
        /\ inserted' = Append(inserted, item)
        /\ lastOp' = "insert"
        /\ selector' = FullBox
        /\ visited' = <<>>
        /\ before' = root
        /\ UNCHANGED given

\* tree.insert(list), list an Array of items.
InsertArray ==
    \E list \in Arrays :
        /\ Len(inserted) + Len(list) <= MaxItems
        /\ root' = insertEach(root, list)
        /\ inserted' = inserted \o list
        /\ lastOp' = "insert"
        /\ selector' = FullBox
        /\ visited' = <<>>
        /\ before' = root
        /\ UNCHANGED given

\* tree.retrieve that takes the root's own items off its list as it hands them over.
Retrieve_draining ==
    \E sel \in Selectors \cup {inserted[i] : i \in DOMAIN inserted} :
        /\ visited' = retrieve(root, sel)
        /\ root' = [root EXCEPT !.items = <<>>]
        /\ selector' = sel
        /\ lastOp' = "retrieve"
        /\ before' = root
        /\ UNCHANGED <<given, inserted>>

\* tree.retrieve(sel, callback), the callback recording its argument.
Retrieve ==
    \E sel \in Selectors \cup {inserted[i] : i \in DOMAIN inserted} :
        /\ visited' = retrieve(root, sel)
        /\ selector' = sel
        /\ lastOp' = "retrieve"
        /\ before' = root
        /\ UNCHANGED <<root, given, inserted>>

\* tree.clear()
Clear ==
    /\ root' = clear(root)
    /\ inserted' = <<>>
    /\ lastOp' = "clear"
    /\ selector' = FullBox
    /\ visited' = <<>>
    /\ before' = root
    /\ UNCHANGED given

Next == Insert \/ InsertArray \/ Retrieve \/ Clear

Spec == Init /\ [][Next]_vars

----------------------------------------------------------------------------
\* Vocabulary of the properties.

Range(s) == {s[i] : i \in DOMAIN s}

\* How many times e occurs in the sequence s.
Count(s, e) == Cardinality({i \in DOMAIN s : s[i] = e})

RECURSIVE AllNodes(_)
\* The nodes of the subtree rooted at n, n included.
AllNodes(n) ==
    {n} \cup UNION {AllNodes(n.nodes[i]) : i \in DOMAIN n.nodes}

RECURSIVE Stored(_)
RECURSIVE StoredIn(_)
\* The items held in the items lists of the nodes ns and of their subtrees.
StoredIn(ns) ==
    IF ns = <<>> THEN <<>> ELSE Stored(Head(ns)) \o StoredIn(Tail(ns))

\* The items held in the items lists of the subtree rooted at n, n included.
Stored(n) == n.items \o StoredIn(n.nodes)

IsInternal(n) == Len(n.nodes) # 0

\* The closed rectangles a and b share at least a point (a in caller units).
Intersects(a, b) ==
    /\ a.x <= b.x + b.w /\ b.x <= a.x + a.w
    /\ a.y <= b.y + b.h /\ b.y <= a.y + a.h

RECURSIVE IsSubseq(_, _)
\* s is t with some of its elements left out.
IsSubseq(s, t) ==
    IF s = <<>> THEN TRUE
    ELSE IF t = <<>> THEN FALSE
    ELSE IF Head(s) = Head(t) THEN IsSubseq(Tail(s), Tail(t))
    ELSE IsSubseq(s, Tail(t))

RECURSIVE VisitInOrder(_, _, _)
RECURSIVE VisitChildren(_, _, _, _)
\* The subtrees of n among todo that findOverlappingNodes reports, walked in todo's order.
VisitChildren(n, sel, order, todo) ==
    IF todo = <<>> THEN <<>>
    ELSE (IF Head(todo) \in Range(findOverlappingNodes(n, sel))
          THEN VisitInOrder(n.nodes[Head(todo) + 1], sel, order)
          ELSE <<>>) \o VisitChildren(n, sel, order, Tail(todo))

\* The node's own items, then its overlapping subtrees in the quadrant order given.
VisitInOrder(n, sel, order) ==
    n.items \o (IF IsInternal(n) THEN VisitChildren(n, sel, order, order) ELSE <<>>)

Quadrants == {TOP_LEFT, TOP_RIGHT, BOTTOM_LEFT, BOTTOM_RIGHT}

\* The midlines of node n, in 1/Unit.
MidX(n) == n.x + Half(n.w)
MidY(n) == n.y + Half(n.h)

\* The rectangle r lies within the region of subnode q of the internal node n,
\* borders included.
InQuadrant(n, r, q) ==
    LET c == n.nodes[q + 1] IN
    /\ c.x <= r.x * Unit /\ (r.x + r.w) * Unit <= c.x + c.w
    /\ c.y <= r.y * Unit /\ (r.y + r.h) * Unit <= c.y + c.h

InExactlyOneQuadrant(n, r, q) ==
    /\ InQuadrant(n, r, q)
    /\ \A q2 \in Quadrants \ {q} : ~InQuadrant(n, r, q2)

\* The rectangle r has points on both sides of a midline of n.
Crosses(n, r) ==
    \/ r.x * Unit < MidX(n) /\ MidX(n) < (r.x + r.w) * Unit
    \/ r.y * Unit < MidY(n) /\ MidY(n) < (r.y + r.h) * Unit

\* No edge of the rectangle r lies on a midline of n.
OffMidlines(n, r) ==
    /\ r.x * Unit # MidX(n) /\ (r.x + r.w) * Unit # MidX(n)
    /\ r.y * Unit # MidY(n) /\ (r.y + r.h) * Unit # MidY(n)

\* The rectangle r has a point on a midline of n.
MeetsMidline(n, r) ==
    \/ r.x * Unit <= MidX(n) /\ MidX(n) <= (r.x + r.w) * Unit
    \/ r.y * Unit <= MidY(n) /\ MidY(n) <= (r.y + r.h) * Unit

\* Nodes are created once and keep their rectangle and depth: a and b are the
\* same node of the tree, seen in two states.
SameNode(a, b) ==
    /\ a.x = b.x /\ a.y = b.y /\ a.w = b.w /\ a.h = b.h
    /\ a.depth = b.depth

\* Every node that is internal in the tree t is internal in the tree u.
StaysInternal(t, u) ==
    \A a \in AllNodes(t) : IsInternal(a) =>
        \E b \in AllNodes(u) : SameNode(a, b) /\ IsInternal(b)

\* The rectangle r lies within the rectangle of node n, borders included.
Within(n, r) ==
    /\ n.x <= r.x * Unit /\ (r.x + r.w) * Unit <= n.x + n.w
    /\ n.y <= r.y * Unit /\ (r.y + r.h) * Unit <= n.y + n.h

RECURSIVE Perms(_)
\* The orders the elements of the sequence s can be put in.
Perms(s) ==
    IF s = <<>> THEN {<<>>}
    ELSE UNION {{<<s[i]>> \o p :
                    p \in Perms(SubSeq(s, 1, i - 1) \o SubSeq(s, i + 1, Len(s)))} :
                i \in DOMAIN s}

RECURSIVE SameUpToOrder(_, _)
\* The trees a and b have the same internal nodes and, node by node, the same
\* items the same number of times.
SameUpToOrder(a, b) ==
    /\ Len(a.nodes) = Len(b.nodes)
    /\ Len(a.items) = Len(b.items)
    /\ \A it \in Range(a.items) : Count(a.items, it) = Count(b.items, it)
    /\ \A i \in DOMAIN a.nodes : SameUpToOrder(a.nodes[i], b.nodes[i])

\* a and b share boundary points only.
TouchesOnly(a, b) ==
    /\ Intersects(a, b)
    /\ \/ a.x = b.x + b.w \/ b.x = a.x + a.w
       \/ a.y = b.y + b.h \/ b.y = a.y + a.h

----------------------------------------------------------------------------
\* C1.  No true overlap is missed: after any inserts, a retrieve calls the
\* callback on every stored item whose rectangle intersects the selector
\* (touching edges count), whichever node holds the item.
C1_NoOverlapMissed ==
    lastOp = "retrieve" =>
        \A it \in Range(Stored(root)) :
            Intersects(it, selector) => Count(visited, it) >= Count(Stored(root), it)

\* A retrieve that reached an item two levels down which only touches the selector.
C1_Witness ==
    /\ lastOp = "retrieve"
    /\ \E n \in AllNodes(root) : \E it \in Range(n.items) :
          /\ n.depth >= 2
          /\ TouchesOnly(it, selector)
          /\ it \in Range(visited)
    /\ \E it \in Range(Stored(root)) : it \notin Range(visited)

\* C2.  No loss on subdivision: a retrieve over the full root bounding box
\* visits every inserted item exactly as many times as it was inserted.
C2_NoLossOnSubdivision ==
    (lastOp = "retrieve" /\ selector = FullBox) =>
        /\ Len(visited) = Len(inserted)
        /\ \A it \in Items : Count(visited, it) = Count(inserted, it)

\* A full retrieve of a tree that subdivided at two levels and holds an item twice.
C2_Witness ==
    /\ lastOp = "retrieve" /\ selector = FullBox
    /\ \E n \in AllNodes(root) : n.depth >= 1 /\ IsInternal(n)
    /\ \E it \in Items : Count(inserted, it) = 2
    /\ Len(inserted) = MaxItems

\* C3 as claimed.  Visit order of retrieve: at every node reached, the node's
\* own items in insertion order, then the overlapping subtrees in the order
\* top-left, top-right, bottom-left, bottom-right.
C3_OrderAsClaimed ==
    lastOp = "retrieve" =>
        /\ \A n \in AllNodes(root) : IsSubseq(n.items, inserted)
        /\ visited = VisitInOrder(root, selector,
                                  <<TOP_LEFT, TOP_RIGHT, BOTTOM_LEFT, BOTTOM_RIGHT>>)

\* C3 as amended.  Visit order of retrieve: at every node reached, the node's
\* own items in insertion order, then the overlapping subtrees in the order
\* top-left, bottom-left, top-right, bottom-right.
C3_VisitOrder ==
    lastOp = "retrieve" =>
        /\ \A n \in AllNodes(root) : IsSubseq(n.items, inserted)
        /\ visited = VisitInOrder(root, selector,
                                  <<TOP_LEFT, BOTTOM_LEFT, TOP_RIGHT, BOTTOM_RIGHT>>)

\* A retrieve that handed over an item of the root, then items of the
\* bottom-left and of the top-right subtree.
C3_Witness ==
    /\ lastOp = "retrieve"
    /\ IsInternal(root)
    /\ root.items # <<>>
    /\ \E a \in Range(Stored(root.nodes[BOTTOM_LEFT + 1])) :
       \E b \in Range(Stored(root.nodes[TOP_RIGHT + 1])) :
          {a, b} \subseteq Range(visited)

\* C4.  Scenario C: on an Index constructed with maxDepth 0 no insertion
\* subdivides: the root stays a leaf and its items are all the inserted items.
C4_MaxDepthZeroNeverSubdivides ==
    ("maxDepth" \in DOMAIN given /\ given.maxDepth = 0) =>
        /\ root.nodes = <<>>
        /\ root.items = inserted

\* C5 as claimed.  Quadrant exclusivity: at every internal node, an item that
\* reached the node (by insert or by divide's reinsertion) and lies fully
\* inside the region of exactly one quadrant is in that quadrant's subtree
\* and not in the node's own items.
C5_ExclusivityAsClaimed ==
    \A n \in AllNodes(root) : IsInternal(n) =>
        \A it \in Range(Stored(n)) : \A q \in Quadrants :
            InExactlyOneQuadrant(n, it, q) =>
                /\ it \notin Range(n.items)
                /\ Count(Stored(n.nodes[q + 1]), it) = Count(Stored(n), it)

\* C5 as amended.  The same for an item that lies fully inside the region of
\* exactly one quadrant and whose right and bottom edges are not on the
\* node's midlines.
C5_QuadrantExclusivity ==
    \A n \in AllNodes(root) : IsInternal(n) =>
        \A it \in Range(Stored(n)) : \A q \in Quadrants :
            ( /\ InExactlyOneQuadrant(n, it, q)
              /\ (it.x + it.w) * Unit # MidX(n)
              /\ (it.y + it.h) * Unit # MidY(n) ) =>
                /\ it \notin Range(n.items)
                /\ Count(Stored(n.nodes[q + 1]), it) = Count(Stored(n), it)

\* An internal node below the root passed an item on to one quadrant, the root
\* passed on an item whose left edge is on its midline, and divide reinserted both.
C5_Witness ==
    /\ \E n \in AllNodes(root) : \E q \in Quadrants :
          /\ n.depth >= 1 /\ IsInternal(n)
          /\ \E it \in Range(Stored(n.nodes[q + 1])) : InExactlyOneQuadrant(n, it, q)
    /\ IsInternal(root)
    /\ OnMidTR \in Range(Stored(root.nodes[TOP_RIGHT + 1]))
    /\ InExactlyOneQuadrant(root, OnMidTR, TOP_RIGHT)
    /\ ~IsInternal(before)

\* C6.  Depth ceiling: no node is deeper than the maxDepth the root was
\* created with, every subnode is one deeper than its parent and carries the
\* root's maxDepth, and a node at depth maxDepth is a leaf whatever it holds.
C6_DepthCeiling ==
    \A n \in AllNodes(root) :
        /\ n.depth <= root.maxDepth
        /\ n.maxDepth = root.maxDepth
        /\ n.depth = root.maxDepth => ~IsInternal(n)
        /\ \A i \in DOMAIN n.nodes : n.nodes[i].depth = n.depth + 1

\* A leaf at depth maxDepth holds more than maxChildren items, below the root.
C6_Witness ==
    \E n \in AllNodes(root) :
        /\ n.depth = root.maxDepth /\ n.depth >= 1
        /\ ~IsInternal(n)
        /\ Len(n.items) > n.maxChildren

\* C7.  Containment: after an insert and any further inserts, a retrieve whose
\* selector is an inserted item's own rectangle visits that item.
C7_Containment ==
    (lastOp = "retrieve" /\ selector \in Range(inserted)) =>
        selector \in Range(visited)

\* The selector is an inserted item that is held two levels down, or at an
\* internal node, below other inserts.
C7_Witness ==
    /\ lastOp = "retrieve"
    /\ Len(inserted) = MaxItems
    /\ selector = inserted[1]
    /\ \E n \in AllNodes(root) :
          n.depth >= 2 /\ selector \in Range(n.items)
    /\ Len(visited) < Len(inserted)

\* C8.  Straddle retention: an item that reached an internal node and crosses
\* one of its midlines is in that node's own items and in no other node; an
\* inserted item that crosses a midline of the root is held at the root, and a
\* retrieve over the full bounding box visits it once per insertion.
C8_StraddleRetention ==
    /\ \A n \in AllNodes(root) : IsInternal(n) =>
          \A it \in Range(Stored(n)) :
              Crosses(n, it) => Count(n.items, it) = Count(Stored(root), it)
    /\ \A it \in Range(inserted) :
          Crosses(root, it) =>
              /\ Count(root.items, it) = Count(inserted, it)
              /\ Count(Stored(root), it) = Count(inserted, it)
              /\ (lastOp = "retrieve" /\ selector = FullBox) =>
                     Count(visited, it) = Count(inserted, it)

\* The full retrieve visited once the item inserted first, which crosses the
\* root's horizontal midline only, after the inserts that subdivided the root
\* and a subnode, in which another item crosses a midline.
C8_Witness ==
    /\ lastOp = "retrieve" /\ selector = FullBox
    /\ Len(inserted) = MaxItems
    /\ inserted[1] = StraddleH
    /\ Count(visited, StraddleH) = 1
    /\ StraddleH \in Range(root.items)
    /\ \E n \in AllNodes(root) : \E it \in Range(n.items) :
          n.depth >= 1 /\ IsInternal(n) /\ Crosses(n, it)

\* C9.  Clear empties everything: after clear() the root is a leaf with no
\* items, a retrieve over the full bounding box visits nothing, and the
\* root's rectangle, depth, maxChildren and maxDepth are what they were.
C9_ClearEmptiesEverything ==
    /\ lastOp = "clear" =>
          /\ root.nodes = <<>>
          /\ root.items = <<>>
          /\ retrieve(root, FullBox) = <<>>
          /\ \A f \in {"x", "y", "w", "h", "depth", "maxChildren", "maxDepth"} :
                root[f] = before[f]
    /\ (lastOp = "retrieve" /\ selector = FullBox /\ inserted = <<>>) =>
          visited = <<>>

\* clear() ran on a tree subdivided at two levels that held items at the root
\* and below it.
C9_Witness ==
    /\ lastOp = "clear"
    /\ before.items # <<>>
    /\ \E n \in AllNodes(before) : n.depth >= 1 /\ IsInternal(n) /\ n.items # <<>>
    /\ root.nodes = <<>>

\* C10.  Query pruning: once the root is internal, a retrieve whose selector
\* lies inside one quadrant and off both midlines visits no item stored in the
\* subtrees of the other three quadrants; in Scenario A the selector
\* (0,0,20,20) visits exactly the first and the third item.
C10_QueryPruning ==
    lastOp = "retrieve" =>
        /\ IsInternal(root) =>
              \A q \in Quadrants :
                  (InQuadrant(root, selector, q) /\ OffMidlines(root, selector)) =>
                      \A q2 \in Quadrants \ {q} :
                          \A it \in Range(Stored(root.nodes[q2 + 1])) :
                              it \notin Range(visited)
        /\ (given = ScenarioA /\ inserted = <<A1, A2, A3>> /\ selector = QueryA) =>
              visited = <<A1, A3>>

\* Scenario A ran, with the second item stored in another quadrant's subtree.
C10_Witness ==
    /\ lastOp = "retrieve"
    /\ given = ScenarioA /\ inserted = <<A1, A2, A3>> /\ selector = QueryA
    /\ IsInternal(root)
    /\ InQuadrant(root, selector, TOP_LEFT) /\ OffMidlines(root, selector)
    /\ A2 \in Range(Stored(root.nodes[BOTTOM_RIGHT + 1]))
    /\ visited = <<A1, A3>>

\* C11.  Node shape: after every insert or clear, every node has no subnodes
\* or exactly four, and every item in the items of an internal node is one
\* that findInsertNode classifies as PARENT for that node: it has a point on
\* the node's vertical or horizontal midline.
C11_NodeShape ==
    \A n \in AllNodes(root) :
        /\ Len(n.nodes) \in {0, 4}
        /\ IsInternal(n) =>
              \A it \in Range(n.items) :
                  /\ findInsertNode(n, it) = PARENT
                  /\ MeetsMidline(n, it)

\* After an insert that divided the root, the root and an internal node below
\* it hold items, one of them only touching the midlines.
C11_Witness ==
    /\ lastOp = "insert"
    /\ ~IsInternal(before) /\ IsInternal(root)
    /\ \E it \in Range(root.items) : ~Crosses(root, it)
    /\ \E n \in AllNodes(root) : n.depth >= 1 /\ IsInternal(n) /\ n.items # <<>>

\* C12 as claimed.  No merge-back: in every step of insert, retrieve or clear,
\* a node that is internal stays internal.
C12_NoMergeBackAsClaimed ==
    [][StaysInternal(root, root')]_vars

\* C12 as amended.  No merge-back: in every step of insert or retrieve, a node
\* that is internal stays internal.
C12_NoMergeBack ==
    [][lastOp' # "clear" => StaysInternal(root, root')]_vars

\* An insert changed a tree that was internal at two levels.
C12_Witness ==
    /\ lastOp = "insert"
    /\ root # before
    /\ \E n \in AllNodes(before) : n.depth >= 1 /\ IsInternal(n)

\* C13.  Leaf capacity: after every insert, every leaf above depth maxDepth
\* holds at most maxChildren items.
C13_LeafCapacity ==
    \A n \in AllNodes(root) :
        (~IsInternal(n) /\ n.depth < n.maxDepth) => Len(n.items) <= n.maxChildren

\* One insert divided the root and, through divide's reinsertion, nodes below
\* it; a leaf above depth maxDepth is full.
C13_Witness ==
    /\ lastOp = "insert"
    /\ ~IsInternal(before)
    /\ \E n \in AllNodes(root) : n.depth >= 1 /\ IsInternal(n)
    /\ \E n \in AllNodes(root) :
          ~IsInternal(n) /\ n.depth < n.maxDepth /\ Len(n.items) = n.maxChildren

\* C14.  Reuse after clear: clear() leaves the tree a freshly constructed
\* Index has, and after any inserts and retrieves that follow a clear the
\* tree (shape, items per node) and the visit sequence are those of the same
\* inserts and retrieve on a freshly constructed Index with the same args.
C14_ReuseAfterClear ==
    /\ lastOp = "clear" => root = QUAD(given)
    /\ root = insertEach(QUAD(given), inserted)
    /\ lastOp = "retrieve" =>
          visited = retrieve(insertEach(QUAD(given), inserted), selector)

\* clear() ran on a tree subdivided at two levels that held items at an
\* internal node and in a leaf.
C14_Witness ==
    /\ lastOp = "clear"
    /\ inserted = <<>>
    /\ Len(Stored(before)) = MaxItems
    /\ \E n \in AllNodes(before) : n.depth >= 1 /\ IsInternal(n) /\ n.items # <<>>
    /\ \E n \in AllNodes(before) : ~IsInternal(n) /\ n.items # <<>>

\* C15.  Item containment: if every inserted item lies within the root's
\* bounding box, every item stored at a node lies within that node's rectangle.
C15_ItemContainment ==
    (\A it \in Range(inserted) : Within(root, it)) =>
        \A n \in AllNodes(root) : \A it \in Range(n.items) : Within(n, it)

\* Items are held two levels down, one in a top-right subnode and one with
\* its left edge on the root's midline.
C15_Witness ==
    /\ Len(inserted) = MaxItems
    /\ \A it \in Range(inserted) : Within(root, it)
    /\ \E n \in AllNodes(root) : n.depth >= 2 /\ n.items # <<>>
    /\ IsInternal(root)
    /\ OnMidTR \in Range(root.nodes[TOP_RIGHT + 1].items)

\* C16.  Insertion-order independence: the inserted items, inserted into an
\* equally configured empty tree in any other order, give the same internal
\* nodes and the same multiset of items at every node.
C16_OrderIndependence ==
    lastOp = "insert" =>
        \A p \in Perms(inserted) :
            SameUpToOrder(root, insertEach(QUAD(given), p))

\* Three different items were inserted, the tree is subdivided at two levels,
\* and another order gives a tree that differs in the order within a list.
C16_Witness ==
    /\ lastOp = "insert"
    /\ Len(inserted) = MaxItems
    /\ Cardinality(Range(inserted)) = MaxItems
    /\ \E n \in AllNodes(root) : n.depth >= 1 /\ IsInternal(n)
    /\ \E p \in Perms(inserted) : insertEach(QUAD(given), p) # root

\* C17.  retrieve is read-only: a retrieve leaves the tree (every node's items,
\* subnodes, rectangle, depth, maxChildren, maxDepth) as it was, and the same
\* retrieve run again hands over the same sequence of items.
C17_RetrieveReadOnly ==
    lastOp = "retrieve" =>
        /\ root = before
        /\ retrieve(root, selector) = visited

\* A retrieve handed over some of the items of a tree subdivided at two levels.
C17_Witness ==
    /\ lastOp = "retrieve"
    /\ root.items # <<>>
    /\ \E n \in AllNodes(root) : n.depth >= 1 /\ IsInternal(n)
    /\ visited # <<>>
    /\ Len(visited) < Len(inserted)

====
